---- MODULE Spec2Model ----
(***************************************************************************)
(* Model of the go-simple-crud task service: the five HTTP handlers of     *)
(* handlers/tasks.go over the single "tasks" table that database.ConnectDB *)
(* opens.  One action is one handler invocation from the decoding of the   *)
(* request to the last byte written to the http.ResponseWriter.            *)
(*                                                                         *)
(* Time is a natural number; 0 is the zero time.Time.  Path identifiers    *)
(* are the numeric strings mux hands over in params["id"], written as the  *)
(* number they denote.                                                     *)
(***************************************************************************)
EXTENDS Naturals, Sequences, FiniteSets

\* ---- bounds -------------------------------------------------------------
MaxId == 2
MaxTime == 2

\* ---- HTTP status codes (net/http) ----------------------------------------
StatusOK == 200
StatusCreated == 201
StatusBadRequest == 400
StatusNotFound == 404
StatusInternalServerError == 500

\* ---- models.Task ---------------------------------------------------------
ZeroTask ==
  [ID |-> 0, Title |-> "", Description |-> "", Status |-> "",
   CreatedAt |-> 0, UpdatedAt |-> 0]

\* ---- request bodies ------------------------------------------------------
\* A body is one of: a JSON object (obj maps the keys present to their
\* values), a JSON object followed by garbage, or text that is not JSON (the
\* empty body included).  Bodies are those sent to POST /api/tasks,
\* UpdateBodies those sent to PUT /api/tasks/{id}.
Bodies ==
  { [kind |-> "object",
     obj |-> [title |-> "Learn Go", description |-> "Study", status |-> "pending"]],
    [kind |-> "object",
     obj |-> [id |-> MaxId, title |-> "Own", created_at |-> 1]],
    [kind |-> "trailing",
     obj |-> [title |-> "Learn Go", description |-> "Study", status |-> "pending"]],
    [kind |-> "malformed"] }

UpdateBodies ==
  Bodies \cup
  { [kind |-> "object",
     obj |-> [title |-> "Learn Go", description |-> "Study", status |-> "completed"]] }

\* The body of a request that carries none.
NoBody == [kind |-> "malformed"]

\* encoding/json: a key absent from the object leaves the field at its zero
\* value.
JSONField(obj, key, zero) == IF key \in DOMAIN obj THEN obj[key] ELSE zero

\* json.NewDecoder(r.Body).Decode(&task): decodes the first JSON value of the
\* body into a zero Task; what follows that value is not read.
Decode(body) ==
  IF body.kind = "malformed"
    THEN [err |-> TRUE, task |-> ZeroTask]
  ELSE [err |-> FALSE,
        task |-> [ID |-> JSONField(body.obj, "id", 0),
                  Title |-> JSONField(body.obj, "title", ""),
                  Description |-> JSONField(body.obj, "description", ""),
                  Status |-> JSONField(body.obj, "status", ""),
                  CreatedAt |-> JSONField(body.obj, "created_at", 0),
                  UpdatedAt |-> JSONField(body.obj, "updated_at", 0)]]

\* ---- state ---------------------------------------------------------------
VARIABLES
  tasks,    \* rows of the tasks table behind database.DB
  seq,      \* largest row id the table has ever held (AUTOINCREMENT)
  now,      \* the wall clock as it was last read
  req,      \* the last request dispatched by the router
  resp,     \* what its handler wrote to the http.ResponseWriter
  balance,  \* Creates answered 201 minus Deletes of a stored task answered 200
  calls,    \* the storage calls its handler issued, in order
  thr,      \* the requests in flight on concurrent connections
  pc,       \* where main() stands
  db        \* database.DB: "none", "opened" (gorm.Open done) or "ready" (migrated)

vars == <<tasks, seq, now, req, resp, balance, calls, thr, pc, db>>

\* ---- storage calls (database.DB) -----------------------------------------
\* DB.First(&task, id): the row with that primary key, or an error (record
\* not found, or any storage fault) that leaves task untouched.
DBFirst(rows, id, fault) ==
  IF fault \/ ~(\E t \in rows : t.ID = id)
    THEN [err |-> TRUE, task |-> ZeroTask]
    ELSE [err |-> FALSE, task |-> CHOOSE t \in rows : t.ID = id]

\* DB.Find(&tasks): every row.
DBFind(rows, fault) ==
  IF fault THEN [err |-> TRUE, tasks |-> {}] ELSE [err |-> FALSE, tasks |-> rows]

\* DB.Create as it would be if the table had no primary key on ID: a row
\* whose ID is already stored is inserted all the same.
DBCreate_NoPrimaryKey(rows, sq, task, time, fault) ==
  LET id == IF task.ID = 0 THEN sq + 1 ELSE task.ID
      row == [task EXCEPT !.ID = id,
                          !.CreatedAt = IF @ = 0 THEN time ELSE @,
                          !.UpdatedAt = IF @ = 0 THEN time ELSE @]
  IN IF fault
       THEN [err |-> TRUE, task |-> task, rows |-> rows, seq |-> sq]
       ELSE [err |-> FALSE, task |-> row, rows |-> rows \cup {row},
             seq |-> IF id > sq THEN id ELSE sq]

\* DB.Create(&task): inserts the struct.  A zero ID is replaced by the next
\* AUTOINCREMENT value, a non-zero ID is inserted as given and fails on a
\* duplicate key; CreatedAt and UpdatedAt are set to the current time only
\* where they are zero.
DBCreate(rows, sq, task, time, fault) ==
  LET id == IF task.ID = 0 THEN sq + 1 ELSE task.ID
      row == [task EXCEPT !.ID = id,
                          !.CreatedAt = IF @ = 0 THEN time ELSE @,
                          !.UpdatedAt = IF @ = 0 THEN time ELSE @]
  IN IF fault \/ (\E t \in rows : t.ID = id)
       THEN [err |-> TRUE, task |-> task, rows |-> rows, seq |-> sq]
       ELSE [err |-> FALSE, task |-> row, rows |-> rows \cup {row},
             seq |-> IF id > sq THEN id ELSE sq]

\* DB.Delete(&task): deletes the row whose primary key is task.ID; with a
\* zero ID there is no condition and nothing is deleted.
DBDelete(rows, task, fault) ==
  IF fault \/ task.ID = 0
    THEN [err |-> TRUE, rows |-> rows]
    ELSE [err |-> FALSE, rows |-> {t \in rows : t.ID # task.ID}]

\* ---- the response writer --------------------------------------------------
\* A fresh http.ResponseWriter: if the handler returns without writing,
\* net/http sends 200 with an empty body.
NewWriter == [wrote |-> FALSE, code |-> StatusOK, body |-> <<>>]

\* respondWithJSON as it would be if a later WriteHeader replaced the status
\* code already sent.
respondWithJSON_LastHeaderWins(w, code, payload) ==
  [wrote |-> TRUE, code |-> code, body |-> Append(w.body, payload)]

\* respondWithJSON: the first WriteHeader fixes the status code, a later one
\* is ignored; every Write appends to the body.
respondWithJSON(w, code, payload) ==
  [wrote |-> TRUE,
   code |-> IF w.wrote THEN w.code ELSE code,
   body |-> Append(w.body, payload)]

\* respondWithError: an envelope without data.
respondWithError(w, code, message) ==
  respondWithJSON(w, code, [Status |-> code, Message |-> message])

\* ---- handlers -------------------------------------------------------------
\* Each handler is a function of the table, the clock and the request; it
\* yields the writer, the table and the sequence it leaves behind, and the
\* storage calls it has issued, in order.
Outcome(w, rows, sq, issued) == [w |-> w, rows |-> rows, seq |-> sq, calls |-> issued]

GetAllTasksH(rows, sq, time, r) ==
  LET result == DBFind(rows, "Find" \in r.faults)
  IN IF result.err
       THEN Outcome(respondWithError(NewWriter, StatusInternalServerError,
                                     "Error retrieving tasks"), rows, sq, <<"Find">>)
       ELSE Outcome(NewWriter, rows, sq, <<"Find">>)

GetTaskH(rows, sq, time, r) ==
  LET result == DBFirst(rows, r.id, "First" \in r.faults)
  IN IF result.err
       THEN Outcome(respondWithError(NewWriter, StatusNotFound, "Task not found"),
                    rows, sq, <<"First">>)
       ELSE Outcome(respondWithJSON(NewWriter, StatusOK,
                      [Status |-> StatusOK, Message |-> "Task retrieview sucessfully",
                       Data |-> result.task]), rows, sq, <<"First">>)

\* CreateTask without the return after the 400: the insert and the 201 follow.
CreateTaskH_NoReturnAfter400(rows, sq, time, r) ==
  LET dec == Decode(r.body)
      w1 == IF dec.err
              THEN respondWithError(NewWriter, StatusBadRequest, "Invalid request payload")
              ELSE NewWriter
      result == DBCreate(rows, sq, dec.task, time, "Create" \in r.faults)
  IN IF result.err
       THEN Outcome(respondWithError(w1, StatusInternalServerError,
                                     "Error creating task"), rows, sq, <<"Create">>)
       ELSE Outcome(respondWithJSON(w1, StatusCreated,
                      [Status |-> StatusCreated, Message |-> "Task created successfully",
                       Data |-> result.task]), result.rows, result.seq, <<"Create">>)

CreateTaskH(rows, sq, time, r) ==
  LET dec == Decode(r.body)
      result == DBCreate(rows, sq, dec.task, time, "Create" \in r.faults)
  IN IF dec.err
       THEN Outcome(respondWithError(NewWriter, StatusBadRequest,
                                     "Invalid request payload"), rows, sq, <<>>)
     ELSE IF result.err
       THEN Outcome(respondWithError(NewWriter, StatusInternalServerError,
                                     "Error creating task"), rows, sq, <<"Create">>)
     ELSE Outcome(respondWithJSON(NewWriter, StatusCreated,
                    [Status |-> StatusCreated, Message |-> "Task created successfully",
                     Data |-> result.task]), result.rows, result.seq, <<"Create">>)

\* UpdateTask decoding the body before it looks the task up.
UpdateTaskH_DecodeFirst(rows, sq, time, r) ==
  LET result == DBFirst(rows, r.id, "First" \in r.faults)
      dec == Decode(r.body)
      task == [result.task EXCEPT !.Title = dec.task.Title,
                                  !.Description = dec.task.Description,
                                  !.Status = dec.task.Status]
  IN IF dec.err
       THEN Outcome(respondWithError(NewWriter, StatusBadRequest,
                                     "Invalid request payload"), rows, sq, <<>>)
     ELSE IF result.err
       THEN Outcome(respondWithError(NewWriter, StatusNotFound, "Tas not foun"),
                    rows, sq, <<"First">>)
     ELSE Outcome(respondWithJSON(NewWriter, StatusOK,
                    [Status |-> StatusOK, Message |-> "Task updated successfully",
                     Data |-> task]), rows, sq, <<"First">>)

UpdateTaskH(rows, sq, time, r) ==
  LET result == DBFirst(rows, r.id, "First" \in r.faults)
      dec == Decode(r.body)
      task == [result.task EXCEPT !.Title = dec.task.Title,
                                  !.Description = dec.task.Description,
                                  !.Status = dec.task.Status]
  IN IF result.err
       THEN Outcome(respondWithError(NewWriter, StatusNotFound, "Tas not foun"),
                    rows, sq, <<"First">>)
     ELSE IF dec.err
       THEN Outcome(respondWithError(NewWriter, StatusBadRequest,
                                     "Invalid request payload"), rows, sq, <<"First">>)
     ELSE Outcome(respondWithJSON(NewWriter, StatusOK,
                    [Status |-> StatusOK, Message |-> "Task updated successfully",
                     Data |-> task]), rows, sq, <<"First">>)

DeleteTaskH(rows, sq, time, r) ==
  LET result == DBFirst(rows, r.id, "First" \in r.faults)
      w1 == IF result.err
              THEN respondWithError(NewWriter, StatusNotFound, "Task not found")
              ELSE NewWriter
      del == DBDelete(rows, result.task, "Delete" \in r.faults)
  IN Outcome(respondWithJSON(w1, StatusOK,
               [Status |-> StatusOK, Message |-> "Task deleted successfully"]),
             del.rows, sq, <<"First", "Delete">>)

\* ---- the state machine ----------------------------------------------------
Request(op, id, body, faults) ==
  [op |-> op, id |-> id, body |-> body, faults |-> faults]

\* The connections net/http serves concurrently, one goroutine each.
Conns == {1, 2}

\* A connection with no request: the handler's locals are not yet set.
Idle ==
  [pc |-> "idle", r |-> Request("none", 0, NoBody, {}), task |-> ZeroTask,
   w |-> NewWriter]

Init ==
  /\ thr = [c \in Conns |-> Idle]
  /\ tasks = {}
  /\ seq = 0
  /\ now = 1
  /\ req = [op |-> "none", id |-> 0, body |-> NoBody, faults |-> {}]
  /\ resp = NewWriter
  /\ balance = 0
  /\ calls = <<>>
  /\ pc = "main"
  /\ db = "none"

\* What the handlers leave alone.
Served == <<tasks, seq, now, req, resp, balance, calls, thr>>

\* ConnectDB as it would be if it logged a failure and returned.
ConnectDB_LogAndGoOn ==
  /\ pc = "main"
  /\ pc' = "connected"
  /\ db' \in {"none", "opened", "ready"}
  /\ UNCHANGED Served

\* database.ConnectDB: gorm.Open, then AutoMigrate; log.Fatal ends the process
\* when either fails.
ConnectDB ==
  /\ pc = "main"
  /\ \E outcome \in {"open failed", "migrate failed", "ok"} :
       /\ db' = CASE outcome = "open failed" -> "none"
                  [] outcome = "migrate failed" -> "opened"
                  [] OTHER -> "ready"
       /\ pc' = IF outcome = "ok" THEN "connected" ELSE "exited"
  /\ UNCHANGED Served

\* main: mux.NewRouter and the five HandleFunc calls, then the file server.
RegisterRoutes ==
  /\ pc = "connected"
  /\ pc' = "routed"
  /\ UNCHANGED <<db, Served>>

\* main: http.ListenAndServe binds the port and serves, or returns an error
\* and log.Fatal ends the process.
ListenAndServe ==
  /\ pc = "routed"
  /\ pc' \in {"listening", "exited"}
  /\ UNCHANGED <<db, Served>>

PathIds == 1..MaxId

\* The clock is read only where a row is inserted (DB.Create stamps the zero
\* CreatedAt and UpdatedAt); it does not run backwards between two readings.
Times == now..MaxTime

Serve(r, t, out) ==
  /\ pc = "listening"
  /\ UNCHANGED <<pc, db, thr>>
  /\ req' = r
  /\ now' = t
  /\ resp' = out.w
  /\ calls' = out.calls
  /\ tasks' = out.rows
  /\ seq' = out.seq

GetAllTasks ==
  \E f \in SUBSET {"Find"} :
    LET r == Request("List", 0, NoBody, f)
    IN /\ Serve(r, now, GetAllTasksH(tasks, seq, now, r))
       /\ UNCHANGED balance

GetTask ==
  \E id \in PathIds, f \in SUBSET {"First"} :
    LET r == Request("Get", id, NoBody, f)
    IN /\ Serve(r, now, GetTaskH(tasks, seq, now, r))
       /\ UNCHANGED balance

CreateTask ==
  \E t \in Times, b \in Bodies, f \in SUBSET {"Create"} :
    LET r == Request("Create", 0, b, f)
        out == CreateTaskH(tasks, seq, t, r)
    IN /\ out.seq <= MaxId    \* no id beyond MaxId is handed out
       /\ Serve(r, t, out)
       /\ balance' = IF out.w.code = StatusCreated THEN balance + 1 ELSE balance

UpdateTask ==
  \E id \in PathIds, b \in UpdateBodies, f \in SUBSET {"First"} :
    LET r == Request("Update", id, b, f)
    IN /\ Serve(r, now, UpdateTaskH(tasks, seq, now, r))
       /\ UNCHANGED balance

DeleteTask ==
  \E id \in PathIds, f \in SUBSET {"First", "Delete"} :
    LET r == Request("Delete", id, NoBody, f)
        out == DeleteTaskH(tasks, seq, now, r)
        hit == (\E x \in tasks : x.ID = id) /\ out.w.code = StatusOK
    IN /\ hit => balance > 0    \* keeps the counter within 0..MaxId
       /\ Serve(r, now, out)
       /\ balance' = IF hit THEN balance - 1 ELSE balance

Next ==
  \/ ConnectDB
  \/ RegisterRoutes
  \/ ListenAndServe
  \/ GetAllTasks
  \/ GetTask
  \/ CreateTask
  \/ UpdateTask
  \/ DeleteTask

Spec == Init /\ [][Next]_vars

\* ---- handlers running concurrently ---------------------------------------
\* The same UpdateTask and DeleteTask, one storage call or one stretch of
\* local code per step, on two connections at once.  The table is filled by
\* CreateTask before the two requests arrive.
ConnBodies == {b \in UpdateBodies : b.kind = "object"}

Others == <<seq, now, req, resp, balance, calls, pc, db>>

\* The router hands a PUT or DELETE /api/tasks/{id} to a handler goroutine.
Dispatch(c) ==
  /\ pc = "listening"
  /\ thr[c].pc = "idle"
  /\ \E id \in PathIds :
       \/ \E b \in ConnBodies, f \in SUBSET {"First"} :
            thr' = [thr EXCEPT ![c] = [Idle EXCEPT !.pc = "lookup",
                                                   !.r = Request("Update", id, b, f)]]
       \/ \E f \in SUBSET {"First", "Delete"} :
            thr' = [thr EXCEPT ![c] = [Idle EXCEPT !.pc = "lookup",
                                                   !.r = Request("Delete", id, NoBody, f)]]
  /\ UNCHANGED <<tasks, Others>>

\* UpdateTask, tasks.go:78-82: the lookup, and the 404 and return on error.
UpdateLookup(c) ==
  LET t == thr[c]
      result == DBFirst(tasks, t.r.id, "First" \in t.r.faults)
  IN /\ t.pc = "lookup" /\ t.r.op = "Update"
     /\ thr' = [thr EXCEPT ![c] =
                  IF result.err
                    THEN [t EXCEPT !.pc = "done",
                                   !.w = respondWithError(t.w, StatusNotFound, "Tas not foun")]
                    ELSE [t EXCEPT !.pc = "rest", !.task = result.task]]
     /\ UNCHANGED <<tasks, Others>>

\* UpdateTask, tasks.go:85-103: decode, overwrite the local task, respond.
UpdateRest(c) ==
  LET t == thr[c]
      dec == Decode(t.r.body)
      task == [t.task EXCEPT !.Title = dec.task.Title,
                             !.Description = dec.task.Description,
                             !.Status = dec.task.Status]
  IN /\ t.pc = "rest" /\ t.r.op = "Update"
     /\ thr' = [thr EXCEPT ![c] =
                  IF dec.err
                    THEN [t EXCEPT !.pc = "done",
                                   !.w = respondWithError(t.w, StatusBadRequest,
                                                          "Invalid request payload")]
                    ELSE [t EXCEPT !.pc = "done", !.task = task,
                                   !.w = respondWithJSON(t.w, StatusOK,
                                           [Status |-> StatusOK,
                                            Message |-> "Task updated successfully",
                                            Data |-> task])]]
     /\ UNCHANGED <<tasks, Others>>

\* DeleteTask, tasks.go:112-115: the lookup, and the 404 without a return.
DeleteLookup(c) ==
  LET t == thr[c]
      result == DBFirst(tasks, t.r.id, "First" \in t.r.faults)
  IN /\ t.pc = "lookup" /\ t.r.op = "Delete"
     /\ thr' = [thr EXCEPT ![c] =
                  IF result.err
                    THEN [t EXCEPT !.pc = "rest",
                                   !.w = respondWithError(t.w, StatusNotFound, "Task not found")]
                    ELSE [t EXCEPT !.pc = "rest", !.task = result.task]]
     /\ UNCHANGED <<tasks, Others>>

\* DeleteTask, tasks.go:118-123: the storage delete and the 200.
DeleteRest(c) ==
  LET t == thr[c]
      del == DBDelete(tasks, t.task, "Delete" \in t.r.faults)
  IN /\ t.pc = "rest" /\ t.r.op = "Delete"
     /\ tasks' = del.rows
     /\ thr' = [thr EXCEPT ![c] =
                  [t EXCEPT !.pc = "done",
                            !.w = respondWithJSON(t.w, StatusOK,
                                    [Status |-> StatusOK,
                                     Message |-> "Task deleted successfully"])]]
     /\ UNCHANGED Others

\* The tasks the two requests will meet are created first.
Fill ==
  /\ \A c \in Conns : thr[c].pc = "idle"
  /\ CreateTask

NextConc ==
  \/ ConnectDB
  \/ RegisterRoutes
  \/ ListenAndServe
  \/ Fill
  \/ \E c \in Conns : Dispatch(c)
  \/ \E c \in Conns : UpdateLookup(c)
  \/ \E c \in Conns : UpdateRest(c)
  \/ \E c \in Conns : DeleteLookup(c)
  \/ \E c \in Conns : DeleteRest(c)

SpecConc == Init /\ [][NextConc]_vars

\* ---- helpers for the properties -------------------------------------------
HasId(rows, id) == \E t \in rows : t.ID = id

RowOf(rows, id) == CHOOSE t \in rows : t.ID = id

\* What GET /api/tasks/{id} answers on the given table when its read succeeds.
Fetch(rows, id) ==
  GetTaskH(rows, 0, 0, Request("Get", id, NoBody, {})).w

HasData(w) == Len(w.body) = 1 /\ "Data" \in DOMAIN w.body[1]

\* The body without the keys id, created_at and updated_at.
Strip(body) ==
  IF "obj" \in DOMAIN body
    THEN [body EXCEPT !.obj =
            [k \in DOMAIN body.obj \ {"id", "created_at", "updated_at"} |-> body.obj[k]]]
    ELSE body

\* ---- C1 --------------------------------------------------------------------
\* C1: an Update of a stored task answered 200, followed by a Get of the same
\* id, returns title/description/status equal to the update payload, the same
\* id, the created_at the task had before the update, and an updated_at not
\* earlier than the one it had before.
C1_UpdateThenGetReturnsPayload ==
  [][(req'.op = "Update" /\ resp'.code = StatusOK) =>
       LET old == RowOf(tasks, req'.id)
           p2 == Decode(req'.body).task
           got == Fetch(tasks', req'.id)
       IN /\ got.code = StatusOK
          /\ HasData(got)
          /\ got.body[1].Data.Title = p2.Title
          /\ got.body[1].Data.Description = p2.Description
          /\ got.body[1].Data.Status = p2.Status
          /\ got.body[1].Data.ID = req'.id
          /\ got.body[1].Data.CreatedAt = old.CreatedAt
          /\ got.body[1].Data.UpdatedAt >= old.UpdatedAt]_vars

\* ---- C2 --------------------------------------------------------------------
\* C2: when the storage read succeeds, List answers HTTP 200 with one envelope
\* whose status is 200 and whose data is exactly the stored tasks; when the
\* read fails it answers 500.
C2_ListReturnsStoredTasks ==
  req.op = "List" =>
    IF "Find" \in req.faults
      THEN resp.code = StatusInternalServerError
      ELSE /\ resp.code = StatusOK
           /\ HasData(resp)
           /\ resp.body[1].Status = StatusOK
           /\ resp.body[1].Data = tasks

\* ---- C3 --------------------------------------------------------------------
\* C3: a Create whose body parses and whose insert is not hit by an I/O fault
\* answers 201 with a task of positive id, and a Get of that id answers 200
\* with the payload's title/description/status and created_at = updated_at.
C3_CreateThenGetReturnsPayload ==
  (req.op = "Create" /\ ~Decode(req.body).err /\ req.faults = {}) =>
    /\ resp.code = StatusCreated
    /\ HasData(resp)
    /\ resp.body[1].Data.ID > 0
    /\ LET p == Decode(req.body).task
           got == Fetch(tasks, resp.body[1].Data.ID)
       IN /\ got.code = StatusOK
          /\ HasData(got)
          /\ got.body[1].Data.Title = p.Title
          /\ got.body[1].Data.Description = p.Description
          /\ got.body[1].Data.Status = p.Status
          /\ got.body[1].Data.CreatedAt = got.body[1].Data.UpdatedAt

\* ---- C4 --------------------------------------------------------------------
\* C4: Get, Update and Delete of an id that no stored task has answer HTTP
\* status 404, whatever the table holds and whatever the body is.
C4_AbsentIdIs404 ==
  [][(req'.op \in {"Get", "Update", "Delete"} /\ ~HasId(tasks, req'.id)) =>
       resp'.code = StatusNotFound]_vars

\* A Delete of an absent id, with no storage fault, has been answered while
\* the table holds a task.
C4_Witness ==
  /\ req.op = "Delete"
  /\ req.faults = {}
  /\ tasks # {}
  /\ ~HasId(tasks, req.id)
  /\ resp.code = StatusNotFound
  /\ Len(resp.body) = 2

\* ---- C5 --------------------------------------------------------------------
\* C5: every response is a single envelope whose status field equals the HTTP
\* status code; data is present exactly on the success responses of List,
\* Get, Create and Update.
C5_SingleEnvelopeMirrorsStatus ==
  req.op # "none" =>
    /\ Len(resp.body) = 1
    /\ resp.body[1].Status = resp.code
    /\ ("Data" \in DOMAIN resp.body[1]) <=>
         (resp.code \in {StatusOK, StatusCreated}
          /\ req.op \in {"List", "Get", "Create", "Update"})

\* ---- C6 --------------------------------------------------------------------
\* C6: after a Delete of a stored task's id is answered 200, a Get of that id
\* answers 404.
C6_DeleteThenGetIs404 ==
  [][(req'.op = "Delete" /\ HasId(tasks, req'.id) /\ resp'.code = StatusOK) =>
       Fetch(tasks', req'.id).code = StatusNotFound]_vars

\* ---- C7 --------------------------------------------------------------------
\* C7: from the empty table, after N Creates answered 201 and M Deletes of
\* stored tasks answered 200, List returns exactly N - M tasks.
C7_ListCountsCreatedMinusDeleted ==
  (req.op = "List" /\ req.faults = {}) =>
    /\ HasData(resp)
    /\ Cardinality(resp.body[1].Data) = balance

\* ---- C8 --------------------------------------------------------------------
\* C8: a Create whose body does not parse as a task answers 400 and leaves the
\* table as it was.
C8_BadCreateBodyIs400AndNoInsert ==
  [][(req'.op = "Create" /\ Decode(req'.body).err) =>
       /\ resp'.code = StatusBadRequest
       /\ Len(resp'.body) = 1
       /\ tasks' = tasks
       /\ seq' = seq]_vars

\* A Create with a body that is not JSON has been answered 400 while the table
\* holds a task.
C8_Witness ==
  /\ req.op = "Create"
  /\ req.body.kind = "malformed"
  /\ resp.code = StatusBadRequest
  /\ tasks # {}

\* ---- C9 --------------------------------------------------------------------
\* C9: an Update answered 404 or 400 leaves the table as it was, and an Update
\* of an absent id is answered 404 whether or not its body parses.
C9_UpdateLooksUpFirst ==
  [][req'.op = "Update" =>
       /\ (resp'.code \in {StatusNotFound, StatusBadRequest}) =>
            (tasks' = tasks /\ seq' = seq)
       /\ ~HasId(tasks, req'.id) => resp'.code = StatusNotFound
       /\ (HasId(tasks, req'.id) /\ req'.faults = {} /\ Decode(req'.body).err) =>
            resp'.code = StatusBadRequest]_vars

\* An Update of an absent id with a body that is not JSON has been answered
\* 404 while the table holds a task.
C9_Witness ==
  /\ req.op = "Update"
  /\ req.faults = {}
  /\ Decode(req.body).err
  /\ tasks # {}
  /\ ~HasId(tasks, req.id)
  /\ resp.code = StatusNotFound

\* ---- C10 -------------------------------------------------------------------
\* C10: the id, created_at and updated_at keys of a Create body have no
\* influence: the response code, the returned and stored id and timestamps
\* and the table are those the same request gives with the three keys left
\* out.
C10_CreateIgnoresBodyIdAndTimestamps ==
  [][req'.op = "Create" =>
       LET alt == CreateTaskH(tasks, seq, now', [req' EXCEPT !.body = Strip(@)])
       IN /\ resp'.code = alt.w.code
          /\ resp'.code = StatusCreated =>
               /\ resp'.body[1].Data.ID = alt.w.body[1].Data.ID
               /\ resp'.body[1].Data.CreatedAt = alt.w.body[1].Data.CreatedAt
               /\ resp'.body[1].Data.UpdatedAt = alt.w.body[1].Data.UpdatedAt
               /\ tasks' = alt.rows]_vars

\* ---- C11 -------------------------------------------------------------------
\* C11: when the storage layer fails (an injected I/O fault, or a duplicate
\* key on insert) while serving a request that is otherwise valid (the path
\* id is stored, the body parses), the handler answers 500, never 200 or 404.
C11_StorageFailureIs500 ==
  [][LET r == req'
         valid == \/ r.op = "List"
                  \/ r.op \in {"Get", "Delete"} /\ HasId(tasks, r.id)
                  \/ r.op = "Update" /\ HasId(tasks, r.id) /\ ~Decode(r.body).err
                  \/ r.op = "Create" /\ ~Decode(r.body).err
         failure == \/ r.faults # {}
                    \/ r.op = "Create" /\ HasId(tasks, Decode(r.body).task.ID)
     IN (valid /\ failure) => resp'.code = StatusInternalServerError]_vars

\* ---- C12 -------------------------------------------------------------------
\* C12: no two stored tasks share an identifier, and no request changes the
\* identifier or the created_at of a task that stays stored.
UniqueIds(rows) == \A t \in rows, u \in rows : t.ID = u.ID => t = u

C12_IdUniqueAndCreatedAtFixed ==
  [][/\ UniqueIds(tasks)
     /\ UniqueIds(tasks')
     /\ \A t \in tasks : HasId(tasks', t.ID) =>
          RowOf(tasks', t.ID).CreatedAt = t.CreatedAt]_vars

\* An Update of one of two stored tasks has been answered 200.
C12_Witness ==
  /\ Cardinality(tasks) = 2
  /\ req.op = "Update"
  /\ resp.code = StatusOK

\* ---- C13 -------------------------------------------------------------------
\* C13: the id given by a Create answered 201 is strictly greater than every
\* id given before (seq, the largest id the table has ever held, deleted
\* tasks included), and on the fresh empty table it is 1.
C13_IdsIncreaseFromOne ==
  [][(req'.op = "Create" /\ resp'.code = StatusCreated) =>
       /\ resp'.body[1].Data.ID > seq
       /\ (seq = 0 /\ tasks = {}) => resp'.body[1].Data.ID = 1]_vars

\* ---- C14 -------------------------------------------------------------------
\* C14: a request is handled only while the listener runs, the listener
\* starts only after the routes are registered, the routes are registered
\* only after the storage is opened and migrated, and a process that has
\* terminated (on a failed storage initialization or a failed listen) handles
\* no request.
C14_StartupOrder ==
  [][/\ req'.op # "none" => (pc' = "listening" /\ db' = "ready")
     /\ (pc' \in {"connected", "routed", "listening"}) => db' = "ready"
     /\ (db' # "ready" /\ pc' # "main") => (pc' = "exited" /\ req'.op = "none")
     /\ pc' = "listening" => pc \in {"routed", "listening"}
     /\ pc' = "routed" => pc \in {"connected", "routed"}
     /\ pc' = "connected" => pc \in {"main", "connected"}
     /\ pc = "exited" => (pc' = "exited" /\ req' = req /\ tasks' = tasks)]_vars

\* The storage could not be initialized and the process has terminated.
C14_Witness ==
  /\ pc = "exited"
  /\ db # "ready"
  /\ req.op = "none"

\* ---- C16 -------------------------------------------------------------------
\* C16: the Delete handler issues the storage delete only after its lookup
\* has found the task; when the lookup fails (no such id, or a storage fault)
\* it issues no storage delete and leaves the table as it was.
C16_DeleteOnlyAfterLookup ==
  [][(req'.op = "Delete"
      /\ DBFirst(tasks, req'.id, "First" \in req'.faults).err) =>
       /\ \A i \in 1..Len(calls') : calls'[i] # "Delete"
       /\ tasks' = tasks]_vars

\* ---- C17 -------------------------------------------------------------------
\* C17: every handler invocation writes its response exactly once: it never
\* returns with nothing written and never writes a second envelope.
C17_ExactlyOneWrite ==
  req.op # "none" => (resp.wrote /\ Len(resp.body) = 1)

\* ---- C15 -------------------------------------------------------------------
\* C15: when two concurrent Updates of one stored id, with payloads A and B,
\* have both been answered 200, the stored task has the title, description
\* and status of A in full or of B in full.
SameContent(row, p) ==
  /\ row.Title = p.Title
  /\ row.Description = p.Description
  /\ row.Status = p.Status

C15_ConcurrentUpdatesLastWriteWins ==
  (/\ \A c \in Conns : /\ thr[c].pc = "done"
                       /\ thr[c].r.op = "Update"
                       /\ thr[c].w.code = StatusOK
   /\ thr[1].r.id = thr[2].r.id) =>
    /\ HasId(tasks, thr[1].r.id)
    /\ \/ SameContent(RowOf(tasks, thr[1].r.id), Decode(thr[1].r.body).task)
       \/ SameContent(RowOf(tasks, thr[1].r.id), Decode(thr[2].r.body).task)

\* ---- C18 -------------------------------------------------------------------
\* C18: when an Update and a Delete of one stored id have run concurrently,
\* in any interleaving, and both have finished with the Delete answered 200,
\* the task is not in the table: Get answers 404 and no row has the id.
C18_RacingUpdateDoesNotRecreate ==
  \A c \in Conns, d \in Conns :
    (/\ thr[c].pc = "done" /\ thr[c].r.op = "Update"
     /\ thr[d].pc = "done" /\ thr[d].r.op = "Delete"
     /\ thr[c].r.id = thr[d].r.id
     /\ thr[d].w.code = StatusOK) =>
      /\ ~HasId(tasks, thr[d].r.id)
      /\ Fetch(tasks, thr[d].r.id).code = StatusNotFound

====
